---- MODULE Spec2Model ----
(***************************************************************************)
(* HTMLRenderer::TextLineBuffer (src/src/HTMLRenderer/TextLineBuffer.cc):  *)
(* the per-line buffer of text, offsets and style states, and flush(),     *)
(* which writes one line of markup to the page stream.                     *)
(*                                                                         *)
(* Numbers: the C++ doubles are modelled as integers in a unit in which    *)
(* EPS is 1; h_eps is 2 of those units.  The 64-bit hash_value is a        *)
(* function from byte position (0 = least significant) to 0..255, and     *)
(* hash_umask, which the code only ever builds from whole 0xff bytes, is   *)
(* the set of byte positions that are 0xff.                                *)
(***************************************************************************)
EXTENDS Integers, Sequences, FiniteSets, TLC

VARIABLES
    text,            \* std::vector<Unicode> text
    offsets,         \* std::vector<Offset> offsets: [start_idx, width]
    states,          \* std::vector<State> states
    pc,              \* where the caller is: "idle", "walk" (inside flush's loop), "flushed"
    out,             \* what the flush call in progress, or the one that just returned,
                     \* wrote to renderer->f_pages.fs (the stream is append-only)
    cur_state_iter,  \* flush locals: index into states (1-based)
    cur_offset_iter, \* index into offsets (1-based)
    dx,              \* accumulated horizontal offset
    stack,           \* std::vector<State*> stack: indices into states, 0 = nullptr
    last_text_pos_with_negative_offset,
    cur_text_idx,
    shape,           \* history: how the line began whose appends are the latest: "fresh"
                     \* (no append yet), "styled" (append_state before any text), "good"
                     \* (text after that), "bad" (text before any append_state)
    calls            \* history: <<text length, width>> of every append_offset call
                     \* since offsets was last cleared

vars == <<text, offsets, states, pc, out, cur_state_iter, cur_offset_iter, dx, stack,
          last_text_pos_with_negative_offset, cur_text_idx, shape, calls>>

flushLocals == <<cur_state_iter, cur_offset_iter, dx, stack,
                 last_text_pos_with_negative_offset, cur_text_idx>>

-----------------------------------------------------------------------------
(* Bounds of the model *)
\* most items held for one line: codepoints of text, state segments, and
\* append_offset calls since offsets was last cleared
MaxFill == 7

\* longest text of the buffers on which flush is followed to its return
MaxFlushLen == 2

Fill == Len(text) + Len(states) + Len(calls)

-----------------------------------------------------------------------------
(* State::ID enum, in the order of css_class_names *)
FONT_ID == 0
FONT_SIZE_ID == 1
FILL_COLOR_ID == 2
STROKE_COLOR_ID == 3
LETTER_SPACE_ID == 4
WORD_SPACE_ID == 5
RISE_ID == 6
ID_COUNT == 7

Channels == 0 .. (ID_COUNT - 1)

(* util/math.h EPS, and renderer->param: h_eps, space_threshold (a fraction) *)
EPS == 1
h_eps == 2
space_threshold_num == 1
space_threshold_den == 2

SPACE == 32

Abs(x) == IF x < 0 THEN -x ELSE x
SetMin(S) == CHOOSE m \in S : \A y \in S : m <= y
Last(s) == s[Len(s)]
RECURSIVE SumSeq(_)
SumSeq(s) == IF s = <<>> THEN 0 ELSE s[1] + SumSeq(Tail(s))

\* util/math.h: equal(x, y) is abs(x - y) <= EPS, is_positive(x) is x > EPS
equal(x, y) == Abs(x - y) <= EPS
is_positive(x) == x > EPS

-----------------------------------------------------------------------------
(* The renderer's current style, as set_state reads it from the managers.  *)
(* word_space_manager is a dedup registry: equal values have equal ids.    *)
WordSpaceId(v) == v + 100

MkIds(f, s, r, ws) ==
    [i \in Channels |->
        CASE i = FONT_ID -> f
          [] i = FONT_SIZE_ID -> s
          [] i = WORD_SPACE_ID -> WordSpaceId(ws)
          [] i = RISE_ID -> r
          [] OTHER -> 1]

Font1 == [space_width |-> 2, ascent |-> 4, descent |-> -1]
Font2 == [space_width |-> 1, ascent |-> 2, descent |-> -1]

MkStyle(f, s, r, ws, font, size) ==
    [ids |-> MkIds(f, s, r, ws), font_info |-> font, draw_font_size |-> size,
     letter_space |-> 0, word_space |-> ws]

\* What the renderer can have current when append_state is called.
Styles == { MkStyle(1, 1, 1, 1, Font1, 2),   \* em 10, natural space 1 + 0 + 2*2 = 5
            MkStyle(2, 2, 1, 6, Font2, 3) }  \* em 9, natural space 6 + 0 + 1*3 = 9

\* What append_unicodes and append_offset are called with.
Units == { <<97>>, <<SPACE>>, <<97, 97>> }
\* -4 is a backward shift; 3 is below space_threshold * em - EPS of both styles, so
\* optimize does not count it; 5 is counted by both
Widths == { -4, 3, 5 }

ZeroHash == [p \in 0 .. 7 |-> 0]

-----------------------------------------------------------------------------
Init ==
    /\ text = <<>>
    /\ offsets = <<>>
    /\ states = <<>>
    /\ pc = "idle"
    /\ out = <<>>
    /\ cur_state_iter = 0
    /\ cur_offset_iter = 0
    /\ dx = 0
    /\ stack = <<>>
    /\ last_text_pos_with_negative_offset = 0
    /\ cur_text_idx = 0
    /\ shape = "fresh"
    /\ calls = <<>>

CanAppend == pc \in {"idle", "flushed"}

\* shape of the line being filled: after a flush returns a new line starts
LineShape == IF pc = "flushed" THEN "fresh" ELSE shape

\* append_unicodes(u, l)
append_unicodes(u) ==
    /\ CanAppend
    /\ Fill + Len(u) <= MaxFill
    /\ text' = text \o u
    /\ pc' = "idle"
    /\ out' = <<>>
    /\ shape' = CASE LineShape = "fresh" -> "bad"
                  [] LineShape = "styled" -> "good"
                  [] OTHER -> LineShape
    /\ UNCHANGED <<offsets, states, flushLocals, calls>>

\* append_offset pushing a record on every call
append_offset_no_merge(width) ==
    /\ CanAppend
    /\ Fill < MaxFill
    /\ offsets' = Append(offsets, [start_idx |-> Len(text), width |-> width])
    /\ calls' = Append(calls, <<Len(text), width>>)
    /\ pc' = "idle"
    /\ out' = <<>>
    /\ shape' = LineShape
    /\ UNCHANGED <<text, states, flushLocals>>

\* append_offset(width)
append_offset(width) ==
    /\ CanAppend
    /\ Fill < MaxFill
    /\ offsets' = IF offsets # <<>> /\ Last(offsets).start_idx = Len(text)
                  THEN [offsets EXCEPT ![Len(offsets)].width = @ + width]
                  ELSE Append(offsets, [start_idx |-> Len(text), width |-> width])
    /\ calls' = Append(calls, <<Len(text), width>>)
    /\ pc' = "idle"
    /\ out' = <<>>
    /\ shape' = LineShape
    /\ UNCHANGED <<text, states, flushLocals>>

\* set_state(state)
set_state(state, cur) ==
    [state EXCEPT !.ids = cur.ids,
                  !.font_info = cur.font_info,
                  !.draw_font_size = cur.draw_font_size,
                  !.letter_space = cur.letter_space,
                  !.word_space = cur.word_space]

\* states.resize(states.size() + 1): a value-initialized State
NewState ==
    [start_idx |-> 0, ids |-> [i \in Channels |-> 0], hash_umask |-> {},
     hash_value |-> ZeroHash, need_close |-> FALSE,
     font_info |-> [space_width |-> 0, ascent |-> 0, descent |-> 0],
     draw_font_size |-> 0, letter_space |-> 0, word_space |-> 0]

OpensSegment == IF states = <<>> THEN TRUE ELSE Last(states).start_idx # Len(text)

\* flush(), line 71: states.empty() || (states[0].start_idx != 0)
NoStyle == IF states = <<>> THEN TRUE ELSE states[1].start_idx # 0

\* append_state resizing on every call
append_state_always_opens(cur) ==
    /\ CanAppend
    /\ Fill < MaxFill
    /\ states' = Append(states, set_state([NewState EXCEPT !.start_idx = Len(text),
                                                           !.hash_umask = {}], cur))
    /\ pc' = "idle"
    /\ out' = <<>>
    /\ shape' = IF LineShape = "fresh" THEN "styled" ELSE LineShape
    /\ UNCHANGED <<text, offsets, flushLocals, calls>>

\* append_state(), cur being the renderer's current style
append_state(cur) ==
    /\ CanAppend
    /\ OpensSegment => Fill < MaxFill
    /\ LET grown == IF OpensSegment
                    THEN Append(states, [NewState EXCEPT !.start_idx = Len(text),
                                                         !.hash_umask = {}])
                    ELSE states
       IN states' = [grown EXCEPT ![Len(grown)] = set_state(@, cur)]
    /\ pc' = "idle"
    /\ out' = <<>>
    /\ shape' = IF LineShape = "fresh" THEN "styled" ELSE LineShape
    /\ UNCHANGED <<text, offsets, flushLocals, calls>>

-----------------------------------------------------------------------------
(* State *)

\* State::umask_by_id(id): 0xff << (8*id), the byte position that is set
umask_by_id(id) == {id}

\* State::single_space_offset()
single_space_offset(s) ==
    s.word_space + s.letter_space + s.font_info.space_width * s.draw_font_size

\* State::em_size()
em_size(s) == s.draw_font_size * (s.font_info.ascent - s.font_info.descent)

\* State::hash(): hash_value = (hash_value << 8) | (ids[i] & 0xff), for i = 0 .. 6
RECURSIVE HashLoop(_, _, _)
HashLoop(ids, i, h) ==
    IF i >= ID_COUNT THEN h
    ELSE HashLoop(ids, i + 1,
                  [p \in 0 .. 7 |-> IF p = 0 THEN ids[i] % 256 ELSE h[p - 1]])

hash(s) == [s EXCEPT !.hash_value = HashLoop(s.ids, 0, ZeroHash)]

\* State::diff, line 411: common_mask = ~(hash_umask | s.hash_umask)
common_mask(a, b) == (0 .. 7) \ (a.hash_umask \cup b.hash_umask)

\* State::diff, line 412: the quick check on the masked hash values
QuickEqual(a, b) ==
    \A p \in common_mask(a, b) : a.hash_value[p] = b.hash_value[p]

\* State::diff, lines 414-422: the per-channel count
RECURSIVE DiffLoop(_, _, _, _)
DiffLoop(a, b, i, d) ==
    IF i >= ID_COUNT THEN d
    ELSE DiffLoop(a, b, i + 1,
                  IF i \in common_mask(a, b) /\ a.ids[i] # b.ids[i] THEN d + 1 ELSE d)

\* diff returning the outcome of the quick check in place of 0
diff_returns_flag(a, b) == IF QuickEqual(a, b) THEN 1 ELSE DiffLoop(a, b, 0, 0)

\* State::diff(s)
diff(a, b) == IF QuickEqual(a, b) THEN 0 ELSE DiffLoop(a, b, 0, 0)

-----------------------------------------------------------------------------
(* What is written to the stream, one token per tag or codepoint.  seg is  *)
(* the index in states of the segment whose begin / end wrote the tag;    *)
(* idx is the text index a codepoint was copied from, -1 for the space    *)
(* that an offset is turned into.                                         *)
Tok(t, seg, cls, u, idx) == [t |-> t, seg |-> seg, cls |-> cls, u |-> u, idx |-> idx]
DivOpen == Tok("div", 0, <<>>, 0, -1)
DivClose == Tok("/div", 0, <<>>, 0, -1)
SpanOpen(seg, cls) == Tok("span", seg, cls, 0, -1)
SpanClose(seg) == Tok("/span", seg, <<>>, 0, -1)
GapOpen(wid) == Tok("gap", 0, <<wid>>, 0, -1)
GapClose == Tok("/gap", 0, <<>>, 0, -1)
Char(u, idx) == Tok("ch", 0, <<>>, u, idx)

\* the copy starting at &text.front(), the + cur_text_idx forgotten
RECURSIVE output_from_front(_, _)
output_from_front(from, to) ==
    IF from >= to THEN <<>>
    ELSE output_from_front(from, to - 1) \o <<Char(text[to - from], to - from - 1)>>

\* outputUnicodes(out, &text.front() + from, to - from)
RECURSIVE outputUnicodes(_, _)
outputUnicodes(from, to) ==
    IF from >= to THEN <<>>
    ELSE <<Char(text[from + 1], from)>> \o outputUnicodes(from + 1, to)

\* begin taking a channel as inherited also when there is no prev_state
RECURSIVE begin_loop_root_inherits(_, _, _, _)
begin_loop_root_inherits(self, prev, i, cls) ==
    IF i >= ID_COUNT THEN [st |-> self, cls |-> cls]
    ELSE IF i \in self.hash_umask
    THEN IF prev # <<>> /\ i \notin prev[1].hash_umask
         THEN LET p == prev[1]
                  s1 == [self EXCEPT !.ids[i] = p.ids[i], !.hash_umask = @ \ {i}]
                  s2 == CASE i = FONT_SIZE_ID -> [s1 EXCEPT !.draw_font_size = p.draw_font_size]
                          [] i = LETTER_SPACE_ID -> [s1 EXCEPT !.letter_space = p.letter_space]
                          [] i = WORD_SPACE_ID -> [s1 EXCEPT !.word_space = p.word_space]
                          [] OTHER -> s1
              IN begin_loop_root_inherits(s2, prev, i + 1, cls)
         ELSE begin_loop_root_inherits(self, prev, i + 1, cls)
    ELSE IF prev = <<>>
    THEN begin_loop_root_inherits(self, prev, i + 1, cls)
    ELSE IF i \notin prev[1].hash_umask /\ prev[1].ids[i] = self.ids[i]
    THEN begin_loop_root_inherits(self, prev, i + 1, cls)
    ELSE begin_loop_root_inherits(self, prev, i + 1, Append(cls, <<i, self.ids[i]>>))

\* begin comparing at line 357 the bytes of the ids that State::hash keeps
RECURSIVE begin_loop_compares_bytes(_, _, _, _)
begin_loop_compares_bytes(self, prev, i, cls) ==
    IF i >= ID_COUNT THEN [st |-> self, cls |-> cls]
    ELSE IF i \in self.hash_umask
    THEN IF prev # <<>> /\ i \notin prev[1].hash_umask
         THEN LET p == prev[1]
                  s1 == [self EXCEPT !.ids[i] = p.ids[i], !.hash_umask = @ \ {i}]
                  s2 == CASE i = FONT_SIZE_ID -> [s1 EXCEPT !.draw_font_size = p.draw_font_size]
                          [] i = LETTER_SPACE_ID -> [s1 EXCEPT !.letter_space = p.letter_space]
                          [] i = WORD_SPACE_ID -> [s1 EXCEPT !.word_space = p.word_space]
                          [] OTHER -> s1
              IN begin_loop_compares_bytes(s2, prev, i + 1, cls)
         ELSE begin_loop_compares_bytes(self, prev, i + 1, cls)
    ELSE IF prev # <<>> /\ i \notin prev[1].hash_umask
                        /\ prev[1].ids[i] % 256 = self.ids[i] % 256
    THEN begin_loop_compares_bytes(self, prev, i + 1, cls)
    ELSE begin_loop_compares_bytes(self, prev, i + 1, Append(cls, <<i, self.ids[i]>>))

\* begin comparing the ids at line 357 whether or not prev_state has the channel
\* masked out
RECURSIVE begin_loop_ignores_prev_mask(_, _, _, _)
begin_loop_ignores_prev_mask(self, prev, i, cls) ==
    IF i >= ID_COUNT THEN [st |-> self, cls |-> cls]
    ELSE IF i \in self.hash_umask
    THEN IF prev # <<>> /\ i \notin prev[1].hash_umask
         THEN LET p == prev[1]
                  s1 == [self EXCEPT !.ids[i] = p.ids[i], !.hash_umask = @ \ {i}]
                  s2 == CASE i = FONT_SIZE_ID -> [s1 EXCEPT !.draw_font_size = p.draw_font_size]
                          [] i = LETTER_SPACE_ID -> [s1 EXCEPT !.letter_space = p.letter_space]
                          [] i = WORD_SPACE_ID -> [s1 EXCEPT !.word_space = p.word_space]
                          [] OTHER -> s1
              IN begin_loop_ignores_prev_mask(s2, prev, i + 1, cls)
         ELSE begin_loop_ignores_prev_mask(self, prev, i + 1, cls)
    ELSE IF prev # <<>> /\ prev[1].ids[i] = self.ids[i]
    THEN begin_loop_ignores_prev_mask(self, prev, i + 1, cls)
    ELSE begin_loop_ignores_prev_mask(self, prev, i + 1, Append(cls, <<i, self.ids[i]>>))

\* begin leaving a masked-out channel as it is, lines 330-351 left out
RECURSIVE begin_loop_no_adopt(_, _, _, _)
begin_loop_no_adopt(self, prev, i, cls) ==
    IF i >= ID_COUNT THEN [st |-> self, cls |-> cls]
    ELSE IF i \in self.hash_umask
    THEN begin_loop_no_adopt(self, prev, i + 1, cls)
    ELSE IF prev # <<>> /\ i \notin prev[1].hash_umask /\ prev[1].ids[i] = self.ids[i]
    THEN begin_loop_no_adopt(self, prev, i + 1, cls)
    ELSE begin_loop_no_adopt(self, prev, i + 1, Append(cls, <<i, self.ids[i]>>))

\* State::begin, lines 326-376: one channel per round; prev is <<>> for nullptr
RECURSIVE BeginLoop(_, _, _, _)
BeginLoop(self, prev, i, cls) ==
    IF i >= ID_COUNT THEN [st |-> self, cls |-> cls]
    ELSE IF i \in self.hash_umask
    THEN IF prev # <<>> /\ i \notin prev[1].hash_umask
         THEN LET p == prev[1]
                  s1 == [self EXCEPT !.ids[i] = p.ids[i], !.hash_umask = @ \ {i}]
                  s2 == CASE i = FONT_SIZE_ID -> [s1 EXCEPT !.draw_font_size = p.draw_font_size]
                          [] i = LETTER_SPACE_ID -> [s1 EXCEPT !.letter_space = p.letter_space]
                          [] i = WORD_SPACE_ID -> [s1 EXCEPT !.word_space = p.word_space]
                          [] OTHER -> s1
              IN BeginLoop(s2, prev, i + 1, cls)
         ELSE BeginLoop(self, prev, i + 1, cls)
    ELSE IF prev # <<>> /\ i \notin prev[1].hash_umask /\ prev[1].ids[i] = self.ids[i]
    THEN BeginLoop(self, prev, i + 1, cls)
    ELSE BeginLoop(self, prev, i + 1, Append(cls, <<i, self.ids[i]>>))

\* State::begin(out, prev_state) of the segment at index seg
begin(seg, self, prev) ==
    LET r == BeginLoop(self, prev, 0, <<>>)
    IN IF r.cls = <<>>
       THEN [st |-> [r.st EXCEPT !.need_close = FALSE], out |-> <<>>]
       ELSE [st |-> [r.st EXCEPT !.need_close = TRUE], out |-> <<SpanOpen(seg, r.cls)>>]

\* end writing the close whatever need_close says
end_always(seg, self) == <<SpanClose(seg)>>

\* State::end(out) of the segment at index seg
end(seg, self) == IF self.need_close THEN <<SpanClose(seg)>> ELSE <<>>

\* flush, lines 136-140 and 209-213: end and pop the entries above position p
RECURSIVE PopTo(_, _, _)
PopTo(sts, stk, p) ==
    IF Len(stk) <= p THEN <<>>
    ELSE end(Last(stk), sts[Last(stk)]) \o PopTo(sts, SubSeq(stk, 1, Len(stk) - 1), p)

\* the scan taking a candidate of equal cost as well: cost <= best_cost at line 134
RECURSIVE search_takes_ties(_, _, _, _, _, _, _)
search_takes_ties(sts, n, lastneg, p, stk, best_cost, acc) ==
    IF stk[p] = 0 THEN [stack |-> stk, out |-> acc]
    ELSE LET cost == diff(sts[n], sts[stk[p]])
             better == cost <= best_cost
             stk2 == IF better THEN SubSeq(stk, 1, p) ELSE stk
             acc2 == IF better THEN acc \o PopTo(sts, stk, p) ELSE acc
             best2 == IF better THEN cost ELSE best_cost
         IN IF better /\ best2 = 0 THEN [stack |-> stk2, out |-> acc2]
            ELSE IF sts[stk[p]].start_idx <= lastneg THEN [stack |-> stk2, out |-> acc2]
            ELSE search_takes_ties(sts, n, lastneg, p - 1, stk2, best2, acc2)

\* the scan without the test of line 148: it goes on to the nullptr
RECURSIVE search_to_root(_, _, _, _, _, _, _)
search_to_root(sts, n, lastneg, p, stk, best_cost, acc) ==
    IF stk[p] = 0 THEN [stack |-> stk, out |-> acc]
    ELSE LET cost == diff(sts[n], sts[stk[p]])
             better == cost < best_cost
             stk2 == IF better THEN SubSeq(stk, 1, p) ELSE stk
             acc2 == IF better THEN acc \o PopTo(sts, stk, p) ELSE acc
             best2 == IF better THEN cost ELSE best_cost
         IN IF better /\ best2 = 0 THEN [stack |-> stk2, out |-> acc2]
            ELSE search_to_root(sts, n, lastneg, p - 1, stk2, best2, acc2)

\* the scan closing and popping the chosen entry as well: the inner loop of lines
\* 136-140 going one entry further
RECURSIVE search_pops_match(_, _, _, _, _, _, _)
search_pops_match(sts, n, lastneg, p, stk, best_cost, acc) ==
    IF stk[p] = 0 THEN [stack |-> stk, out |-> acc]
    ELSE LET cost == diff(sts[n], sts[stk[p]])
             better == cost < best_cost
             stk2 == IF better THEN SubSeq(stk, 1, p - 1) ELSE stk
             acc2 == IF better THEN acc \o PopTo(sts, stk, p - 1) ELSE acc
             best2 == IF better THEN cost ELSE best_cost
         IN IF better /\ best2 = 0 THEN [stack |-> stk2, out |-> acc2]
            ELSE IF sts[stk[p]].start_idx <= lastneg THEN [stack |-> stk2, out |-> acc2]
            ELSE search_pops_match(sts, n, lastneg, p - 1, stk2, best2, acc2)

\* flush, lines 128-150: the scan from stack.rbegin() for the state at index n;
\* p is the position of *iter in the stack
RECURSIVE Search(_, _, _, _, _, _, _)
Search(sts, n, lastneg, p, stk, best_cost, acc) ==
    IF stk[p] = 0 THEN [stack |-> stk, out |-> acc]
    ELSE LET cost == diff(sts[n], sts[stk[p]])
             better == cost < best_cost
             stk2 == IF better THEN SubSeq(stk, 1, p) ELSE stk
             acc2 == IF better THEN acc \o PopTo(sts, stk, p) ELSE acc
             best2 == IF better THEN cost ELSE best_cost
         IN IF better /\ best2 = 0 THEN [stack |-> stk2, out |-> acc2]
            ELSE IF sts[stk[p]].start_idx <= lastneg THEN [stack |-> stk2, out |-> acc2]
            ELSE Search(sts, n, lastneg, p - 1, stk2, best2, acc2)

-----------------------------------------------------------------------------
(* optimize *)

\* lines 280-288: count target in the bucket within EPS, or open a bucket
CountWidth(width_map, target) ==
    LET cands == {k \in DOMAIN width_map : k >= target - EPS}
    IN IF cands # {} /\ Abs(SetMin(cands) - target) <= EPS
       THEN [width_map EXCEPT ![SetMin(cands)] = @ + 1]
       ELSE [k \in DOMAIN width_map \cup {target} |->
                IF k = target THEN 1 ELSE width_map[k]]

\* line 277: target < threshold - EPS, threshold being em_size * space_threshold
BelowThreshold(target, s) ==
    target * space_threshold_den
        < em_size(s) * space_threshold_num - EPS * space_threshold_den

\* lines 269-270: skip the offsets before text_idx1
RECURSIVE SkipOffsets(_, _, _)
SkipOffsets(offs, oi, text_idx1) ==
    IF oi <= Len(offs) /\ offs[oi].start_idx < text_idx1
    THEN SkipOffsets(offs, oi + 1, text_idx1)
    ELSE oi

\* lines 273-289: collect the widths of the offsets before text_idx2
RECURSIVE CollectWidths(_, _, _, _, _)
CollectWidths(offs, oi, text_idx2, s, width_map) ==
    IF oi <= Len(offs) /\ offs[oi].start_idx < text_idx2
    THEN CollectWidths(offs, oi + 1, text_idx2, s,
                       IF BelowThreshold(offs[oi].width, s) THEN width_map
                       ELSE CountWidth(width_map, offs[oi].width))
    ELSE [oi |-> oi, width_map |-> width_map]

\* the least width collected, whatever the counts
least_width(width_map) == SetMin(DOMAIN width_map)

\* lines 299-308: the first key, in ascending order, of the greatest count
MostUsedWidth(width_map) ==
    SetMin({k \in DOMAIN width_map :
               \A j \in DOMAIN width_map : width_map[j] <= width_map[k]})

\* word_space_manager.install(new_word_space, &word_space): the id and the value kept
InstallWordSpace(v) == [id |-> WordSpaceId(v), actual |-> v]

\* lines 310-315
SetWordSpace(s, most_used_width) ==
    LET s0 == [s EXCEPT !.word_space = 0]
        r == InstallWordSpace(most_used_width - single_space_offset(s0))
    IN [s0 EXCEPT !.ids[WORD_SPACE_ID] = r.id,
                  !.word_space = r.actual,
                  !.hash_umask = @ \ umask_by_id(WORD_SPACE_ID)]

HasSpace(txt, text_idx1, text_idx2) ==
    \E k \in (text_idx1 + 1) .. text_idx2 : txt[k] = SPACE

\* lines 247-316: the loop over the states, k being state_iter1
RECURSIVE OptimizeLoop(_, _, _, _, _)
OptimizeLoop(txt, offs, sts, k, offset_iter) ==
    IF k > Len(sts) THEN sts
    ELSE LET text_idx1 == sts[k].start_idx
             text_idx2 == IF k = Len(sts) THEN Len(txt) ELSE sts[k + 1].start_idx
         IN IF HasSpace(txt, text_idx1, text_idx2)
            THEN OptimizeLoop(txt, offs, sts, k + 1, offset_iter)
            ELSE LET oi == SkipOffsets(offs, offset_iter, text_idx1)
                     c == CollectWidths(offs, oi, text_idx2, sts[k], <<>>)
                 IN IF DOMAIN c.width_map = {}
                    THEN OptimizeLoop(txt, offs,
                            [sts EXCEPT ![k].hash_umask = @ \cup umask_by_id(WORD_SPACE_ID)],
                            k + 1, c.oi)
                    ELSE OptimizeLoop(txt, offs,
                            [sts EXCEPT ![k] = SetWordSpace(@, MostUsedWidth(c.width_map))],
                            k + 1, c.oi)

\* optimize()
optimize(txt, offs, sts) == OptimizeLoop(txt, offs, sts, 1, 1)

\* flush(), line 69: if(text.empty()) return;
FlushEmpty ==
    /\ CanAppend
    /\ text = <<>>
    /\ pc' = "flushed"
    /\ out' = <<>>
    /\ UNCHANGED <<text, offsets, states, flushLocals, shape, calls>>

\* flush(), lines 71-75: the warning, and return
FlushDrop ==
    /\ CanAppend
    /\ text # <<>>
    /\ NoStyle
    /\ pc' = "flushed"
    /\ out' = <<>>
    /\ UNCHANGED <<text, offsets, states, flushLocals, shape, calls>>

\* whitespace_manager.install(target, &actual_offset): the registry answers with a
\* value it holds within its eps (h_eps) of target, or with target itself; it holds
\* only values flush installed, each farther than h_eps from 0.  The id is that of
\* the value.
InstallWhitespace(target) ==
    {[id |-> a, actual |-> a] : a \in {v \in (target - h_eps) .. (target + h_eps) :
                                         Abs(v) > h_eps}}

\* the test of line 170 left out
word_space_unchecked(s) == TRUE

\* flush, line 170: the word space of cur_state is not masked out
WordSpaceBound(s) == umask_by_id(WORD_SPACE_ID) \cap s.hash_umask = {}

\* flush, line 173: the target is the width of one space
IsSpaceWidth(target, s) == Abs(target - single_space_offset(s)) <= h_eps

\* flush, line 162
Negligible(target) == Abs(target) <= h_eps

\* the comparison of line 194 without the EPS
gap_has_space_strict(target, s) ==
    target * space_threshold_den > em_size(s) * space_threshold_num

\* flush, line 194: target > (threshold - EPS)
GapHasSpace(target, s) ==
    target * space_threshold_den
        > em_size(s) * space_threshold_num - EPS * space_threshold_den

\* the offset of line 162 taken as rendered in full: actual_offset = target
resolve_offset_drops_small(target, cur_state, w, idx) ==
    IF Negligible(target)
    THEN [actual_offset |-> target, out |-> <<>>, negative |-> FALSE]
    ELSE IF WordSpaceBound(cur_state) /\ IsSpaceWidth(target, cur_state)
    THEN [actual_offset |-> single_space_offset(cur_state),
          out |-> <<Char(SPACE, -1)>>, negative |-> FALSE]
    ELSE IF equal(w.actual, 0)
    THEN [actual_offset |-> w.actual, out |-> <<>>, negative |-> FALSE]
    ELSE [actual_offset |-> w.actual,
          out |-> <<GapOpen(w.id)>>
                  \o (IF GapHasSpace(target, cur_state) THEN <<Char(SPACE, -1)>> ELSE <<>>)
                  \o <<GapClose>>,
          negative |-> is_positive(-w.actual)]

\* flush, lines 159-198: one offset resolved against cur_state = stack.back();
\* w is what whitespace_manager.install returns when it is called
ResolveOffset(target, cur_state, w, idx) ==
    IF Negligible(target)
    THEN [actual_offset |-> 0, out |-> <<>>, negative |-> FALSE]
    ELSE IF WordSpaceBound(cur_state) /\ IsSpaceWidth(target, cur_state)
    THEN [actual_offset |-> single_space_offset(cur_state),
          out |-> <<Char(SPACE, -1)>>, negative |-> FALSE]
    ELSE IF equal(w.actual, 0)
    THEN [actual_offset |-> w.actual, out |-> <<>>, negative |-> FALSE]
    ELSE [actual_offset |-> w.actual,
          out |-> <<GapOpen(w.id)>>
                  \o (IF GapHasSpace(target, cur_state) THEN <<Char(SPACE, -1)>> ELSE <<>>)
                  \o <<GapClose>>,
          negative |-> is_positive(-w.actual)]

\* whether line 184 is reached for this target and state
NeedsInstall(target, cur_state) ==
    /\ ~Negligible(target)
    /\ ~(WordSpaceBound(cur_state) /\ IsSpaceWidth(target, cur_state))

Min2(a, b) == IF a < b THEN a ELSE b

\* flush, lines 77-121: optimize, the dummy state and offset, the hashes, the line's <div>
FlushBegin ==
    /\ CanAppend
    /\ text # <<>>
    /\ ~NoStyle
    /\ LET opt == optimize(text, offsets, states)
           withDummy == Append(opt, [NewState EXCEPT !.start_idx = Len(text)])
       IN states' = [k \in 1 .. Len(withDummy) |-> hash(withDummy[k])]
    /\ offsets' = Append(offsets, [start_idx |-> Len(text), width |-> 0])
    /\ out' = <<DivOpen>>
    /\ cur_state_iter' = 1
    /\ cur_offset_iter' = 1
    /\ dx' = 0
    /\ stack' = <<0>>
    /\ last_text_pos_with_negative_offset' = 0
    /\ cur_text_idx' = 0
    /\ pc' = "walk"
    /\ UNCHANGED <<text, shape, calls>>

\* flush, lines 122-206: one round of while(cur_text_idx < text.size())
WalkStep ==
    /\ pc = "walk"
    /\ cur_text_idx < Len(text)
    /\ LET atState == cur_text_idx >= states[cur_state_iter].start_idx
           sr == Search(states, cur_state_iter, last_text_pos_with_negative_offset,
                        Len(stack), stack, ID_COUNT, <<>>)
           parent == IF Last(sr.stack) = 0 THEN <<>> ELSE <<states[Last(sr.stack)]>>
           b == begin(cur_state_iter, states[cur_state_iter], parent)
           states1 == IF atState THEN [states EXCEPT ![cur_state_iter] = b.st] ELSE states
           stack1 == IF atState THEN Append(sr.stack, cur_state_iter) ELSE stack
           out1 == IF atState THEN out \o sr.out \o b.out ELSE out
           csi1 == IF atState THEN cur_state_iter + 1 ELSE cur_state_iter
           atOffset == cur_text_idx >= offsets[cur_offset_iter].start_idx
           target == offsets[cur_offset_iter].width + dx
           cur_state == states1[Last(stack1)]
       IN \E w \in IF atOffset /\ NeedsInstall(target, cur_state)
                   THEN InstallWhitespace(target)
                   ELSE {[id |-> 0, actual |-> 0]} :
            LET r == ResolveOffset(target, cur_state, w, cur_text_idx)
                out2 == IF atOffset THEN out1 \o r.out ELSE out1
                coi1 == IF atOffset THEN cur_offset_iter + 1 ELSE cur_offset_iter
                next_text_idx == Min2(states1[csi1].start_idx, offsets[coi1].start_idx)
            IN /\ states' = states1
               /\ stack' = stack1
               /\ cur_state_iter' = csi1
               /\ cur_offset_iter' = coi1
               /\ dx' = IF atOffset THEN target - r.actual_offset ELSE dx
               /\ last_text_pos_with_negative_offset' =
                      IF atOffset /\ r.negative THEN cur_text_idx
                      ELSE last_text_pos_with_negative_offset
               /\ out' = out2 \o outputUnicodes(cur_text_idx, next_text_idx)
               /\ cur_text_idx' = next_text_idx
    /\ UNCHANGED <<text, offsets, pc, shape, calls>>

\* flush, lines 208-220: close what is open, </div>, clear the buffer, return.
\* The locals end with the call; the member stack is left holding the nullptr alone,
\* which nothing reads before line 114 clears it, and is shown here as empty.
FlushEnd ==
    /\ pc = "walk"
    /\ cur_text_idx >= Len(text)
    /\ out' = out \o PopTo(states, stack, 1) \o <<DivClose>>
    /\ stack' = <<>>
    /\ states' = <<>>
    /\ offsets' = <<>>
    /\ text' = <<>>
    /\ calls' = <<>>
    /\ pc' = "flushed"
    /\ shape' = shape
    /\ cur_state_iter' = 0
    /\ cur_offset_iter' = 0
    /\ dx' = 0
    /\ last_text_pos_with_negative_offset' = 0
    /\ cur_text_idx' = 0

Next ==
    \/ \E u \in Units : append_unicodes(u)
    \/ \E w \in Widths : append_offset(w)
    \/ \E cur \in Styles : append_state(cur)
    \/ FlushEmpty
    \/ FlushDrop
    \/ FlushBegin
    \/ WalkStep
    \/ FlushEnd

Spec == Init /\ [][Next]_vars

-----------------------------------------------------------------------------
(* State::hash and State::diff on their own: two states with any ids and  *)
(* any channels masked out, hashed as flush hashes them (lines 90-91) and *)
(* then compared.  The result of diff is kept in dx.                      *)

DiffIds == { MkIds(f, s, 1, ws) : f \in {1, 2, -1}, s \in {1, 2}, ws \in {1, 2} }
DiffMasks == SUBSET {FONT_SIZE_ID, WORD_SPACE_ID}
DiffStates == { [NewState EXCEPT !.ids = ids, !.hash_umask = m] :
                    ids \in DiffIds, m \in DiffMasks }

InitDiff ==
    /\ text = <<>>
    /\ offsets = <<>>
    /\ states \in { <<a, b>> : a \in DiffStates, b \in DiffStates }
    /\ pc = "unhashed"
    /\ out = <<>>
    /\ cur_state_iter = 0
    /\ cur_offset_iter = 0
    /\ dx = 0
    /\ stack = <<>>
    /\ last_text_pos_with_negative_offset = 0
    /\ cur_text_idx = 0
    /\ shape = "fresh"
    /\ calls = <<>>

\* flush, lines 90-91: iter->hash() for every state
HashStates ==
    /\ pc = "unhashed"
    /\ states' = [k \in 1 .. Len(states) |-> hash(states[k])]
    /\ pc' = "hashed"
    /\ UNCHANGED <<text, offsets, out, flushLocals, shape, calls>>

\* a.diff(b)
DiffPair ==
    /\ pc = "hashed"
    /\ dx' = diff(states[1], states[2])
    /\ pc' = "diffed"
    /\ UNCHANGED <<text, offsets, states, out, cur_state_iter, cur_offset_iter, stack,
                   last_text_pos_with_negative_offset, cur_text_idx, shape, calls>>

\* a.diff(a)
DiffSelf ==
    /\ pc = "hashed"
    /\ dx' = diff(states[1], states[1])
    /\ pc' = "selfdiffed"
    /\ UNCHANGED <<text, offsets, states, out, cur_state_iter, cur_offset_iter, stack,
                   last_text_pos_with_negative_offset, cur_text_idx, shape, calls>>

NextDiff == HashStates \/ DiffPair \/ DiffSelf

SpecDiff == InitDiff /\ [][NextDiff]_vars

-----------------------------------------------------------------------------
(* optimize on its own: a buffer as the appends can leave it when flush    *)
(* calls optimize (text not empty, a state at index 0), of at most MaxFill *)
(* codepoints, states and offsets; optimize is applied to it once.         *)

OptUnits == { 97, SPACE }
\* -4 is a backward shift; 5 is space_threshold * em_size of the first style; 5 and 6
\* are within EPS of each other; 8 is apart from both
OptWidths == { -4, 5, 6, 8 }

OptTexts == UNION { [1 .. n -> OptUnits] : n \in 1 .. (MaxFill - 1) }

\* a state as append_state leaves it
AppendedState(idx, cur) ==
    set_state([NewState EXCEPT !.start_idx = idx, !.hash_umask = {}], cur)

\* at most k further states of the given styles, at increasing text lengths in
\* lo .. hi
RECURSIVE StatesFrom(_, _, _, _)
StatesFrom(styles, lo, hi, k) ==
    IF k = 0 \/ lo > hi THEN { <<>> }
    ELSE { <<>> } \cup
         UNION { { <<AppendedState(p, cur)>> \o r :
                       cur \in styles, r \in StatesFrom(styles, p + 1, hi, k - 1) } :
                 p \in lo .. hi }

\* the first state at index 0
StateSeqs(styles, len, k) ==
    { <<AppendedState(0, cur)>> \o r :
          cur \in styles, r \in StatesFrom(styles, 1, len, k - 1) }

\* offsets as append_offset would leave them if it pushed a record on every call:
\* start_idx may repeat
RECURSIVE offset_seqs_unmerged(_, _, _, _)
offset_seqs_unmerged(widths, lo, hi, k) ==
    IF k = 0 \/ lo > hi THEN { <<>> }
    ELSE { <<>> } \cup
         UNION { { <<[start_idx |-> p, width |-> w]>> \o r :
                       w \in widths, r \in offset_seqs_unmerged(widths, p, hi, k - 1) } :
                 p \in lo .. hi }

\* at most k offsets of the given widths, at increasing text lengths in lo .. hi
RECURSIVE OffsetSeqs(_, _, _, _)
OffsetSeqs(widths, lo, hi, k) ==
    IF k = 0 \/ lo > hi THEN { <<>> }
    ELSE { <<>> } \cup
         UNION { { <<[start_idx |-> p, width |-> w]>> \o r :
                       w \in widths, r \in OffsetSeqs(widths, p + 1, hi, k - 1) } :
                 p \in lo .. hi }

\* one append_offset call for each offset record
CallsOf(offs) == [j \in DOMAIN offs |-> <<offs[j].start_idx, offs[j].width>>]

InitOpt ==
    /\ text \in OptTexts
    /\ states \in StateSeqs(Styles, Len(text), MaxFill - Len(text))
    /\ offsets \in OffsetSeqs(OptWidths, 0, Len(text), MaxFill - Len(text) - Len(states))
    /\ pc = "unoptimized"
    /\ out = <<>>
    /\ cur_state_iter = 0
    /\ cur_offset_iter = 0
    /\ dx = 0
    /\ stack = <<>>
    /\ last_text_pos_with_negative_offset = 0
    /\ cur_text_idx = 0
    /\ shape = "good"
    /\ calls = CallsOf(offsets)

\* flush, line 77: optimize()
Optimize ==
    /\ pc = "unoptimized"
    /\ states' = optimize(text, offsets, states)
    /\ pc' = "optimized"
    /\ UNCHANGED <<text, offsets, out, flushLocals, shape, calls>>

NextOpt == Optimize

SpecOpt == InitOpt /\ [][NextOpt]_vars

-----------------------------------------------------------------------------
(* flush on its own, on a buffer as the appends can leave it, with styles   *)
(* whose ids State::hash cannot tell apart.                                 *)

\* like the first of Styles but for the font size
Style3 == MkStyle(1, 2, 1, 1, Font1, 3)
\* like the first of Styles but for the font, whose id is the same modulo 256
Style4 == MkStyle(257, 1, 1, 1, Font1, 2)

WalkStyles == { MkStyle(1, 1, 1, 1, Font1, 2), Style3, Style4 }
WalkWidths == { -4, 5 }

InitWalk ==
    /\ text \in OptTexts
    /\ states \in StateSeqs(WalkStyles, Len(text), MaxFill - Len(text))
    /\ offsets \in OffsetSeqs(WalkWidths, 0, Len(text), MaxFill - Len(text) - Len(states))
    /\ pc = "idle"
    /\ out = <<>>
    /\ cur_state_iter = 0
    /\ cur_offset_iter = 0
    /\ dx = 0
    /\ stack = <<>>
    /\ last_text_pos_with_negative_offset = 0
    /\ cur_text_idx = 0
    /\ shape = "good"
    /\ calls = CallsOf(offsets)

NextWalk == FlushBegin \/ WalkStep \/ FlushEnd

SpecWalk == InitWalk /\ [][NextWalk]_vars

-----------------------------------------------------------------------------
(* flush from its first line to its return, on every buffer of at most      *)
(* MaxFlushLen codepoints that has a state at index 0: states and offsets   *)
(* at any of the text lengths, that of the whole text included.             *)

InitFlush ==
    /\ text \in { [i \in 1 .. n |-> 97] : n \in 1 .. MaxFlushLen }
    /\ states \in StateSeqs({MkStyle(1, 1, 1, 1, Font1, 2)}, Len(text), Len(text) + 1)
    /\ offsets \in OffsetSeqs(WalkWidths, 0, Len(text), Len(text) + 1)
    /\ pc = "idle"
    /\ out = <<>>
    /\ cur_state_iter = 0
    /\ cur_offset_iter = 0
    /\ dx = 0
    /\ stack = <<>>
    /\ last_text_pos_with_negative_offset = 0
    /\ cur_text_idx = 0
    /\ shape = "good"
    /\ calls = CallsOf(offsets)

\* flush is one call on one thread: once in its loop, it goes on until it returns
SpecFlushFair ==
    /\ InitFlush
    /\ [][NextWalk]_vars
    /\ WF_vars(WalkStep)
    /\ WF_vars(FlushEnd)

-----------------------------------------------------------------------------
(* Properties *)

IsText(k) == k.t = "ch" /\ k.idx >= 0
IsOffsetSpace(k) == k.t = "ch" /\ k.idx < 0
IsChar(k) == k.t = "ch"
Positions(t) == {i \in DOMAIN out : out[i].t = t}
Rendered == pc = "flushed" /\ out # <<>>
WalkDone == pc = "walk" /\ cur_text_idx >= Len(text)

\* C1: while flush walks a line, the codepoints it has copied from the text buffer
\* are text[0 .. cur_text_idx) in order, each index once; every other character
\* written is a space that an offset was turned into, with text copied between any
\* two of them; and the walk ends at the end of the text, after which flush writes
\* no further character.
C1_TextRoundTrip ==
    /\ [](pc = "walk" =>
            LET copied == SelectSeq(out, IsText)
            IN /\ Len(copied) = cur_text_idx
               /\ \A k \in 1 .. Len(copied) :
                      copied[k].idx = k - 1 /\ copied[k].u = text[k]
               /\ \A i \in DOMAIN out : IsOffsetSpace(out[i]) => out[i].u = SPACE
               /\ \A i, j \in DOMAIN out :
                      (i < j /\ IsOffsetSpace(out[i]) /\ IsOffsetSpace(out[j]))
                          => \E m \in (i + 1) .. (j - 1) : IsText(out[m]))
    /\ [][(pc = "walk" /\ pc' = "flushed")
            => (cur_text_idx = Len(text)
                /\ SelectSeq(out', IsChar) = SelectSeq(out, IsChar))]_vars

C1_Witness ==
    /\ WalkDone
    /\ Len(text) >= 3
    /\ \E i \in DOMAIN out : IsOffsetSpace(out[i]) /\ out[i - 1].t = "gap"
    /\ \E i \in DOMAIN out : IsOffsetSpace(out[i]) /\ out[i - 1].t # "gap"

\* The elements open after the tokens toks, innermost last, or <<-9>> once a tag
\* is out of place: 0 is the line's div, -1 a gap element, k >= 1 the element of
\* segment k.
RECURSIVE OpenAfter(_, _)
OpenAfter(toks, open) ==
    IF toks = <<>> \/ open = <<-9>> THEN open
    ELSE LET k == toks[1]
             top == IF open = <<>> THEN -9 ELSE Last(open)
             pop == SubSeq(open, 1, Len(open) - 1)
         IN OpenAfter(Tail(toks),
                CASE k.t = "div" -> IF open = <<>> THEN <<0>> ELSE <<-9>>
                  [] k.t = "/div" -> IF open = <<0>> /\ Len(toks) = 1 THEN <<>> ELSE <<-9>>
                  [] k.t = "span" -> IF top >= 0 /\ (\A e \in DOMAIN open : open[e] < k.seg)
                                     THEN Append(open, k.seg) ELSE <<-9>>
                  [] k.t = "/span" -> IF top = k.seg /\ top >= 1 THEN pop ELSE <<-9>>
                  [] k.t = "gap" -> IF top >= 0 THEN Append(open, -1) ELSE <<-9>>
                  [] k.t = "/gap" -> IF top = -1 THEN pop ELSE <<-9>>
                  [] OTHER -> IF open = <<>> THEN <<-9>> ELSE open)

Opens == Positions("div") \cup Positions("span") \cup Positions("gap")
Closes == Positions("/div") \cup Positions("/span") \cup Positions("/gap")

\* C2: what a flush has written when it returns is balanced and properly nested:
\* the line's div is opened first and closed last, every element a segment's begin
\* opened is closed once by that segment's end, innermost first, a segment that
\* opened none writes no close, and as many elements are opened as closed.
C2_Balanced ==
    Rendered =>
        /\ out[1] = DivOpen
        /\ Last(out) = DivClose
        /\ OpenAfter(out, <<>>) = <<>>
        /\ Cardinality(Opens) = Cardinality(Closes)
        /\ \A i \in Positions("/span") :
               Cardinality({j \in Positions("span") : out[j].seg = out[i].seg /\ j < i}) = 1
        /\ \A i, j \in Positions("/span") : out[i].seg = out[j].seg => i = j

\* a line of three segments: one nested in another, one closed before the next
\* opens, and the flush has returned
C2_Witness ==
    /\ Rendered
    /\ Cardinality(Positions("span")) >= 2
    /\ \E i \in Positions("/span") : i + 1 \in Positions("span")
    /\ \E i, j \in Positions("span") :
           i < j /\ \A m \in i .. j : out[m].t # "/span"

\* C3: a line whose text has no state at index 0 is dropped by flush with nothing
\* written, and the next line, when its state is appended before its text, is
\* rendered by its own flush.
C3_DropThenContinue ==
    /\ (pc = "flushed" /\ text # <<>>) => out = <<>>
    /\ (pc = "flushed" /\ shape = "good") => out # <<>>

\* C4: when flush has returned, text, offsets and states are empty.
C4_EmptyAfterFlush ==
    pc = "flushed" => (text = <<>> /\ offsets = <<>> /\ states = <<>>)

CallsAt(i) == SelectSeq(calls, LAMBDA c : c[1] = i)
WidthsOf(cs) == [k \in DOMAIN cs |-> cs[k][2]]

\* C5: between flushes the offset records have strictly increasing start_idx within
\* [0, len(text)], one record for each text length at which append_offset was
\* called, and its width is the sum of the widths of those calls.
C5_OffsetsMerged ==
    CanAppend =>
        /\ \A i \in DOMAIN offsets :
               /\ offsets[i].start_idx \in 0 .. Len(text)
               /\ i > 1 => offsets[i - 1].start_idx < offsets[i].start_idx
               /\ offsets[i].width = SumSeq(WidthsOf(CallsAt(offsets[i].start_idx)))
        /\ \A k \in DOMAIN calls : \E i \in DOMAIN offsets : offsets[i].start_idx = calls[k][1]

\* two calls at one text length, merged into one record, and a record elsewhere
C5_Witness ==
    /\ pc = "idle"
    /\ Len(calls) = 2
    /\ Len(offsets) = 1
    /\ offsets[1].start_idx > 0
    /\ offsets[1].width = calls[1][2] + calls[2][2]

StatesOrdered ==
    \A i \in DOMAIN states :
        /\ states[i].start_idx \in 0 .. Len(text)
        /\ i > 1 => states[i - 1].start_idx < states[i].start_idx

\* C6: append_state adds a segment, at the current text length, only when there is
\* none or the last one starts elsewhere, and otherwise overwrites the last segment
\* with the current style; so between flushes the segments' start_idx are strictly
\* increasing and within [0, len(text)].
C6_StateSegments ==
    /\ [](CanAppend => StatesOrdered)
    /\ [][(CanAppend /\ pc' = "idle" /\ states' # states) =>
            LET n == Len(states)
                opened == IF n = 0 THEN TRUE ELSE states[n].start_idx # Len(text)
            IN IF opened
               THEN /\ Len(states') = n + 1
                    /\ SubSeq(states', 1, n) = states
                    /\ states'[n + 1].start_idx = Len(text)
                    /\ \E cur \in Styles : states'[n + 1].ids = cur.ids
               ELSE /\ Len(states') = n
                    /\ SubSeq(states', 1, n - 1) = SubSeq(states, 1, n - 1)
                    /\ states'[n].start_idx = states[n].start_idx
                    /\ \E cur \in Styles :
                           /\ states'[n].ids = cur.ids
                           /\ states'[n].word_space = cur.word_space
                           /\ states'[n].draw_font_size = cur.draw_font_size]_vars

C6_Witness ==
    /\ pc = "idle"
    /\ Len(states) = 3
    /\ states[2].start_idx = 1
    /\ states[3].start_idx = Len(text)
    /\ states[3].ids # states[2].ids

\* a channel of a segment: bound to an id, or free
Channel(s, c) == IF c \in s.hash_umask THEN <<FALSE, 0>> ELSE <<TRUE, s.ids[c]>>

\* during the walk the last entry of states is the dummy state
Segments == 1 .. (Len(states) - 1)

UniformLine ==
    \A i, j \in Segments : \A c \in Channels :
        Channel(states[i], c) = Channel(states[j], c)

BoundInBoth(a, b) == {c \in Channels : c \notin a.hash_umask /\ c \notin b.hash_umask}

\* C8: diff(a, b) is the number of channels bound in both a and b whose ids differ.
C8_DiffCountsMismatches ==
    pc = "diffed" =>
        dx = Cardinality({c \in BoundInBoth(states[1], states[2]) :
                             states[1].ids[c] # states[2].ids[c]})

\* C9: diff(s, s) is 0 for every state s.
C9_DiffReflexive == pc = "selfdiffed" => dx = 0

\* a state with a free channel and the invalid id, compared with itself
C9_Witness ==
    /\ pc = "selfdiffed"
    /\ states[1].hash_umask = {FONT_SIZE_ID, WORD_SPACE_ID}
    /\ states[1].ids[FONT_ID] = -1
    /\ dx = 0

\* the tokens a step of the walk wrote for the offset it resolved
OffsetTokens(toks) ==
    SelectSeq(toks, LAMBDA k : k.t \in {"gap", "/gap"} \/ IsOffsetSpace(k))

\* C10: an offset is written as one space and no gap element exactly when
\* |target| > h_eps, the segment on top of the stack has its word space bound, and
\* target is within h_eps of word_space + letter_space + space_width * draw_font_size
\* of that segment, which is then the actual offset; an offset with
\* |target| <= h_eps writes nothing and its actual offset is 0.
C10_LiteralSpace ==
    [][(pc = "walk" /\ pc' = "walk" /\ cur_offset_iter' = cur_offset_iter + 1) =>
        LET target == offsets[cur_offset_iter].width + dx
            seg == states'[Last(stack')]
            natural == seg.word_space + seg.letter_space
                           + seg.font_info.space_width * seg.draw_font_size
            wrote == OffsetTokens(SubSeq(out', Len(out) + 1, Len(out')))
            actual == target - dx'
            literal == wrote = <<Char(SPACE, -1)>>
        IN /\ literal <=> (/\ Abs(target) > h_eps
                           /\ WORD_SPACE_ID \notin seg.hash_umask
                           /\ Abs(target - natural) <= h_eps)
           /\ literal => actual = natural
           /\ Abs(target) <= h_eps => (wrote = <<>> /\ actual = 0)]_vars

\* an offset just written as a space before the text at its index, the difference
\* between its target and the width of the space carried on in dx
C10_Witness ==
    /\ pc = "walk"
    /\ dx # 0
    /\ Len(out) >= 2
    /\ IsText(Last(out))
    /\ \E i \in DOMAIN out :
           /\ IsOffsetSpace(out[i])
           /\ out[i - 1].t # "gap"
           /\ out[i + 1].idx = cur_text_idx - 1
           /\ cur_text_idx = offsets[cur_offset_iter - 1].start_idx + 1

\* the step of the walk that resolves an offset
ResolvesOffset == pc = "walk" /\ pc' = "walk" /\ cur_offset_iter' = cur_offset_iter + 1

\* the last offset resolved is the one whose tokens start at position i of out:
\* the text copied after them starts at that offset's start_idx
LastResolvedAt(i, n) ==
    /\ pc = "walk"
    /\ cur_offset_iter >= 2
    /\ i + n \in DOMAIN out
    /\ IsText(out[i + n])
    /\ out[i + n].idx = offsets[cur_offset_iter - 1].start_idx

SliceEnd(k) == IF k = Len(states) THEN Len(text) ELSE states[k + 1].start_idx
SliceHasSpace(k) ==
    \E i \in (states[k].start_idx + 1) .. SliceEnd(k) : text[i] = SPACE
InSlice(k) ==
    {j \in DOMAIN offsets :
        states[k].start_idx <= offsets[j].start_idx /\ offsets[j].start_idx < SliceEnd(k)}
Em(k) == states[k].draw_font_size
             * (states[k].font_info.ascent - states[k].font_info.descent)
Advance(k) == states[k].letter_space
                  + states[k].font_info.space_width * states[k].draw_font_size

\* what optimize has to leave of segment k when its word space becomes v
BoundTo(k, v) ==
    states'[k] = [states[k] EXCEPT !.word_space = v,
                                   !.ids[WORD_SPACE_ID] = WordSpaceId(v),
                                   !.hash_umask = @ \ {WORD_SPACE_ID}]

NegativeGapAt ==
    {IF IsText(out[i + 2]) THEN out[i + 2].idx ELSE out[i + 3].idx :
         i \in {g \in Positions("gap") : out[g].cls[1] < 0}}

Pinned(seg) == \E q \in NegativeGapAt : states[seg].start_idx <= q

\* C13: once a gap element with a negative actual offset has been written at text
\* index q, a segment on the stack with start_idx <= q stays where it is on the
\* stack, and no close is written for it, in every later round of the walk; the
\* close-out at the end of flush pops it, writing its close if it opened an element.
C13_NegativeOffsetPins ==
    [][pc = "walk" =>
        \A p \in 2 .. Len(stack) :
            Pinned(stack[p]) =>
                LET wrote == SubSeq(out', Len(out) + 1, Len(out'))
                    closes == {i \in DOMAIN wrote : wrote[i] = SpanClose(stack[p])}
                IN IF pc' = "walk"
                   THEN /\ Len(stack') >= p
                        /\ stack'[p] = stack[p]
                        /\ closes = {}
                   ELSE Cardinality(closes)
                            = IF states[stack[p]].need_close THEN 1 ELSE 0]_vars

\* three segments on the stack, the third begun under the second, which differs
\* from it in font, though the first has every id of the third: a gap element with
\* a negative actual offset was written at or after the start of the second
C13_Witness ==
    /\ pc = "walk"
    /\ stack = <<0, 1, 2, 3>>
    /\ cur_state_iter = 4
    /\ Pinned(2)
    /\ states[3].ids = states[1].ids
    /\ states[3].hash_umask = states[1].hash_umask
    /\ states[3].ids[FONT_ID] # states[2].ids[FONT_ID]
    /\ \A i \in DOMAIN out : out[i].t # "/span"

\* the round of the walk that begins the segment at cur_state_iter
BeginsSegment ==
    /\ pc = "walk"
    /\ pc' = "walk"
    /\ cur_state_iter' = cur_state_iter + 1

\* a has every channel bound, b has the word space free and every other channel
\* bound to the id a has
AlikeButWordSpace(a, b) ==
    /\ a.hash_umask = {}
    /\ b.hash_umask = {WORD_SPACE_ID}
    /\ \A c \in Channels \ {WORD_SPACE_ID} : a.ids[c] = b.ids[c]

\* C14: when the segment to begin has the word space free and every other channel
\* bound to the id that the segment before it has, all of whose channels are bound,
\* flush pushes it right above that segment, closing nothing and opening nothing;
\* it takes that segment's word-space id and word_space and needs no close.  No
\* close is ever written for a segment that needs none.
C14_PassThrough ==
    /\ [][BeginsSegment =>
            LET n == cur_state_iter
                wrote == SubSeq(out', Len(out) + 1, Len(out'))
            IN (n >= 2 /\ AlikeButWordSpace(states[n - 1], states[n])) =>
                   /\ stack' = Append(stack, n)
                   /\ Last(stack) = n - 1
                   /\ \A i \in DOMAIN wrote : wrote[i].t \notin {"span", "/span"}
                   /\ states'[n].ids[WORD_SPACE_ID] = states[n - 1].ids[WORD_SPACE_ID]
                   /\ states'[n].word_space = states[n - 1].word_space
                   /\ states'[n].hash_umask = {}
                   /\ states'[n].need_close = FALSE]_vars
    /\ [][pc = "walk" =>
            LET wrote == SubSeq(out', Len(out) + 1, Len(out'))
            IN \A i \in DOMAIN wrote :
                   wrote[i].t = "/span" => states[wrote[i].seg].need_close]_vars

\* the walk is over a line whose second segment was begun with the word space free
\* under a first segment like it on the other channels: it has the first one's
\* word-space id, which is not the one it was appended with, opened no element, and
\* is to be popped by the close-out
C14_Witness ==
    /\ WalkDone
    /\ stack = <<0, 1, 2>>
    /\ Len(states) = 3
    /\ states[1].ids = states[2].ids
    /\ states[2].hash_umask = {}
    /\ ~states[2].need_close
    /\ \E cur \in Styles :
           /\ \A c \in Channels \ {WORD_SPACE_ID} : cur.ids[c] = states[2].ids[c]
           /\ cur.ids[WORD_SPACE_ID] # states[2].ids[WORD_SPACE_ID]
    /\ Cardinality(Positions("span")) = 1

\* the class tokens that the round which begins segment n wrote for it
ClassTokens(n) ==
    LET wrote == SubSeq(out', Len(out) + 1, Len(out'))
        spans == SelectSeq(wrote, LAMBDA k : k.t = "span" /\ k.seg = n)
    IN IF spans = <<>> THEN <<>> ELSE spans[1].cls

\* the position in the stack under which segment n was pushed
ParentOf(n) == stack'[Len(stack') - 1]

SetMax(S) == CHOOSE m \in S : \A y \in S : y <= m

\* the text index of the latest gap element with a negative actual offset, 0 when
\* there is none
LatestNegative == IF NegativeGapAt = {} THEN 0 ELSE SetMax(NegativeGapAt)

\* the closes that popping the stack down to position p writes, innermost first
RECURSIVE ClosesAbove(_, _)
ClosesAbove(stk, p) ==
    IF Len(stk) <= p THEN <<>>
    ELSE (IF states[Last(stk)].need_close THEN <<SpanClose(Last(stk))>> ELSE <<>>)
             \o ClosesAbove(SubSeq(stk, 1, Len(stk) - 1), p)

\* C16: when a segment is begun, the scan looks at the segments on the stack from
\* the top down to the first whose diff with the new segment is 0 or whose
\* start_idx is <= the text index of the latest negative gap; the new segment is
\* pushed above the topmost of those looked at whose diff is least, the segments
\* above that one are popped and their closes, if they need one, are all the closes
\* written.  diff is what State::diff returns.
C16_GreedySearch ==
    [][BeginsSegment =>
        LET n == cur_state_iter
            L == Len(stack)
            cost(p) == diff(states[n], states[stack[p]])
            stops == {p \in 2 .. L :
                         cost(p) = 0 \/ states[stack[p]].start_idx <= LatestNegative}
            visited == IF stops = {} THEN 2 .. L ELSE SetMax(stops) .. L
            least == {p \in visited : \A q \in visited : cost(p) <= cost(q)}
            chosen == IF L = 1 THEN 1 ELSE SetMax(least)
            wrote == SubSeq(out', Len(out) + 1, Len(out'))
        IN /\ stack[1] = 0
           /\ stack' = Append(SubSeq(stack, 1, chosen), n)
           /\ SelectSeq(wrote, LAMBDA k : k.t = "/span") = ClosesAbove(stack, chosen)]_vars

\* the third segment was begun above the first: the scan went past the second,
\* whose diff with the third was not the least, and closed it
C16_Witness ==
    /\ pc = "walk"
    /\ stack = <<0, 1, 3>>
    /\ cur_state_iter = 4
    /\ diff(states[3], states[2]) > diff(states[3], states[1])
    /\ \E i \in Positions("/span") : out[i].seg = 2 /\ out[i + 1].t = "span"

\* the class tokens of the style elements open after the tokens toks, innermost last
RECURSIVE OpenSpans(_, _)
OpenSpans(toks, open) ==
    IF toks = <<>> THEN open
    ELSE OpenSpans(Tail(toks),
            CASE toks[1].t = "span" -> Append(open, toks[1].cls)
              [] toks[1].t = "/span" -> SubSeq(open, 1, Len(open) - 1)
              [] OTHER -> open)

\* the segment that covers text index j
Covering(j) == SetMax({k \in Segments : states[k].start_idx <= j})

\* the id for channel c in class tokens cls: <<id>>, or <<>> when there is none
TokenFor(cls, c) ==
    LET at == {t \in DOMAIN cls : cls[t][1] = c}
    IN IF at = {} THEN <<>> ELSE <<cls[CHOOSE t \in at : TRUE][2]>>

\* C17: while flush walks a line, for every codepoint copied from the text and every
\* channel that the segment covering it has bound, some style element open around
\* the codepoint has a class token for the channel, and the innermost such element
\* has the segment's id in it, whatever State::diff returned in the scans.
C17_InnermostTokenIsSegmentId ==
    pc = "walk" =>
        \A i \in DOMAIN out :
            IsText(out[i]) =>
                LET seg == states[Covering(out[i].idx)]
                    open == OpenSpans(SubSeq(out, 1, i - 1), <<>>)
                IN \A c \in Channels \ seg.hash_umask :
                       LET carriers == {e \in DOMAIN open : TokenFor(open[e], c) # <<>>}
                       IN /\ carriers # {}
                          /\ TokenFor(open[SetMax(carriers)], c) = <<seg.ids[c]>>

\* the walk is over a line of two segments whose fonts have ids equal modulo 256:
\* State::diff took them for alike, the second was begun under the first, and its
\* element has the token of its own font
C17_Witness ==
    /\ WalkDone
    /\ stack = <<0, 1, 2>>
    /\ states[1].ids[FONT_ID] # states[2].ids[FONT_ID]
    /\ diff(states[2], states[1]) = 0
    /\ \E i \in Positions("span") :
           /\ out[i].seg = 2
           /\ out[i].cls = <<<<FONT_ID, states[2].ids[FONT_ID]>>>>
           /\ IsText(out[i + 1])

\* the actual offset that token i of out renders: the value of a gap element's id,
\* the space advance of the segment around a space written in place of a gap, 0
\* for any other token
RenderedOffset(i) ==
    IF out[i].t = "gap" THEN out[i].cls[1]
    ELSE IF IsOffsetSpace(out[i]) /\ out[i - 1].t # "gap"
    THEN LET seg == states[Covering(out[i + 1].idx)]
         IN seg.word_space + seg.letter_space
                + seg.font_info.space_width * seg.draw_font_size
    ELSE 0

RECURSIVE RenderedSum(_)
RenderedSum(i) == IF i = 0 THEN 0 ELSE RenderedOffset(i) + RenderedSum(i - 1)

RECURSIVE WidthSum(_)
WidthSum(j) == IF j = 0 THEN 0 ELSE offsets[j].width + WidthSum(j - 1)

C19_FlushCompletes ==
    /\ [][(pc = "walk" /\ pc' = "walk") => cur_text_idx' > cur_text_idx]_vars
    /\ [](pc = "walk" =>
            /\ cur_state_iter \in DOMAIN states
            /\ cur_offset_iter \in DOMAIN offsets
            /\ \A k \in 1 .. (cur_state_iter - 1) : states[k].start_idx < Len(text)
            /\ \A j \in 1 .. (cur_offset_iter - 1) : offsets[j].start_idx < Len(text)
            /\ Last(states).start_idx = Len(text)
            /\ Last(offsets).start_idx = Len(text)
            /\ cur_text_idx <= Len(text))
    /\ [][(pc = "walk" /\ pc' = "flushed") => cur_text_idx = Len(text)]_vars
    /\ (pc = "walk") ~> (pc = "flushed")

\* the loop is over on a line that was given a state and an offset after its last
\* codepoint: both cursors are at those records, the dummy ones beyond them
C19_Witness ==
    /\ WalkDone
    /\ Len(text) >= 2
    /\ cur_state_iter = Len(states) - 1
    /\ cur_offset_iter = Len(offsets) - 1
    /\ cur_state_iter >= 3
    /\ cur_offset_iter >= 2
    /\ states[cur_state_iter].start_idx = Len(text)
    /\ offsets[cur_offset_iter].start_idx = Len(text)

\* C20: throughout the walk the bottom entry of the stack is the nullptr, which is
\* nowhere else in it and for which no closing tag is written; the entries above it
\* are segments already begun, with start_idx strictly increasing from bottom to top;
\* once the first segment is pushed it is the entry next to the bottom and is not
\* closed before the close-out; and in every round the offset is resolved and the
\* text copied with, on top of the stack, the segment of the greatest start_idx
\* not above the round's text index, the text copied ending where the next one
\* starts at the latest.
C20_StackDiscipline ==
    /\ [](pc = "walk" =>
            /\ stack # <<>>
            /\ stack[1] = 0
            /\ \A p \in 2 .. Len(stack) : stack[p] \in 1 .. (cur_state_iter - 1)
            /\ \A p \in 2 .. (Len(stack) - 1) :
                   states[stack[p]].start_idx < states[stack[p + 1]].start_idx
            /\ (cur_state_iter > 1 => Len(stack) >= 2 /\ stack[2] = 1)
            /\ \A i \in Positions("/span") : out[i].seg > 1)
    /\ [][(pc = "walk" /\ cur_text_idx' > cur_text_idx) =>
            /\ Last(stack') # 0
            /\ Last(stack') = cur_state_iter' - 1
            /\ states'[Last(stack')].start_idx <= cur_text_idx
            /\ cur_text_idx' <= states'[Last(stack') + 1].start_idx]_vars
    /\ [][(pc = "walk" /\ pc' = "flushed") =>
            /\ \A i \in (DOMAIN out') \ (DOMAIN out) : out'[i].t \in {"/span", "/div"}
            /\ \A i \in (DOMAIN out') \ (DOMAIN out) : out'[i].t = "/span" =>
                   /\ out'[i].seg # 0
                   /\ \E p \in 2 .. Len(stack) : stack[p] = out'[i].seg
            /\ out'[Len(out') - 1] = SpanClose(1)]_vars

\* a walk at its end with three segments begun, one of them closed and popped on
\* the way, and an offset resolved
C20_Witness ==
    /\ WalkDone
    /\ Len(stack) = 3
    /\ cur_state_iter = 4
    /\ cur_offset_iter >= 2
    /\ Positions("/span") # {}
    /\ Positions("gap") # {}
    /\ states[stack[3]].start_idx < Len(text)

=============================================================================
